---- MODULE Spec2Model ----
(***************************************************************************)
(* Model of the game launcher menu (launcher_menu.py): the grid layout of  *)
(* the buttons, the per-frame hover scan / render / event loop of          *)
(* GameLauncher.run, click dispatch in _handle_click and the blocking      *)
(* hand-off to a mini game in _launch_game.                                *)
(***************************************************************************)
EXTENDS Integers, Sequences, FiniteSets, TLC

\* ---------------------------------------------------------------- bounds
MaxGames == 2          \* longest injected catalog enumerated (besides DEFAULT_GAMES)
MaxBatch == 2          \* most events returned by one pygame.event.get()
MaxPresses == 2        \* press events handled before presses stop arriving
MaxLayoutGames == 7    \* catalog sizes of the layout specification
MaxColumns == 4        \* column counts of the layout specification
MaxAssetGames == 2     \* longest catalog of the asset specification

\* ------------------------------------------------------ program constants
WIDTH == 1600
HEIGHT == 900
BUTTON_WIDTH == 420
BUTTON_HEIGHT == 160
BUTTON_SPACING_X == 80
BUTTON_SPACING_Y == 60
BUTTON_TOP == 320
BUTTON_COLUMNS == 3

\* Optional[int] None of hovered_button (button indices are 0-based, as in
\* the source; button idx is buttons[idx + 1] here).
None == -1
\* value of the loop local mouse_pos before its first assignment, and the
\* pos of an event that has none
NoPos == <<-1, -1>>

Min(a, b) == IF a <= b THEN a ELSE b
Max(a, b) == IF a >= b THEN a ELSE b

\* ------------------------------------------------------------ data model
\* GameEntry: only the fields the control flow reads. factory is TRUE when
\* the entry's factory is not None.
GameEntry(enabled, factory) == [enabled |-> enabled, factory |-> factory]

EntryKinds == {GameEntry(e, f) : e \in BOOLEAN, f \in BOOLEAN}

DEFAULT_GAMES ==
    << GameEntry(TRUE, TRUE), GameEntry(TRUE, TRUE), GameEntry(TRUE, TRUE),
       GameEntry(FALSE, FALSE), GameEntry(FALSE, FALSE) >>

\* The catalogs GameLauncher(games) is constructed with: the default one and
\* every injected sequence of at most MaxGames entries.
Catalogs ==
    {DEFAULT_GAMES} \cup UNION {[1..n -> EntryKinds] : n \in 0..MaxGames}

\* pygame.Rect(x, y, w, h)
Rect(x, y, w, h) == [x |-> x, y |-> y, w |-> w, h |-> h]

\* Rect.collidepoint: the right and bottom edges are outside.
CollidePoint(rect, pos) ==
    /\ rect.x <= pos[1] /\ pos[1] < rect.x + rect.w
    /\ rect.y <= pos[2] /\ pos[2] < rect.y + rect.h

\* -------------------------------------------------------------- layout
\* Full-row bug: every row is centered as if it had `cols` buttons.
ComputeButtonPosition_FullRow(index, n, cols) ==
    LET row == index \div cols
        col == index % cols
        row_width == cols * BUTTON_WIDTH + Max(0, cols - 1) * BUTTON_SPACING_X
        row_start_x == (WIDTH - row_width) \div 2
    IN  << row_start_x + col * (BUTTON_WIDTH + BUTTON_SPACING_X),
           BUTTON_TOP + row * (BUTTON_HEIGHT + BUTTON_SPACING_Y) >>

\* Bug: the vertical step leaves the spacing out (rows touch).
ComputeButtonPosition_NoSpacingY(index, n, cols) ==
    LET row == index \div cols
        col == index % cols
        buttons_remaining == n - row * cols
        buttons_in_row == Min(cols, buttons_remaining)
        row_width == buttons_in_row * BUTTON_WIDTH
                     + Max(0, buttons_in_row - 1) * BUTTON_SPACING_X
        row_start_x == (WIDTH - row_width) \div 2
    IN  << row_start_x + col * (BUTTON_WIDTH + BUTTON_SPACING_X),
           BUTTON_TOP + row * BUTTON_HEIGHT >>

\* Bug: the horizontal step leaves the button width out (buttons overlap).
ComputeButtonPosition_StepWithoutWidth(index, n, cols) ==
    LET row == index \div cols
        col == index % cols
        buttons_remaining == n - row * cols
        buttons_in_row == Min(cols, buttons_remaining)
        row_width == buttons_in_row * BUTTON_WIDTH
                     + Max(0, buttons_in_row - 1) * BUTTON_SPACING_X
        row_start_x == (WIDTH - row_width) \div 2
    IN  << row_start_x + col * BUTTON_SPACING_X,
           BUTTON_TOP + row * (BUTTON_HEIGHT + BUTTON_SPACING_Y) >>

\* _compute_button_position(index) for a catalog of n entries laid out in
\* cols columns.
ComputeButtonPosition(index, n, cols) ==
    LET row == index \div cols
        col == index % cols
        buttons_remaining == n - row * cols
        buttons_in_row == Min(cols, buttons_remaining)
        row_width == buttons_in_row * BUTTON_WIDTH
                     + Max(0, buttons_in_row - 1) * BUTTON_SPACING_X
        row_start_x == (WIDTH - row_width) \div 2
    IN  << row_start_x + col * (BUTTON_WIDTH + BUTTON_SPACING_X),
           BUTTON_TOP + row * (BUTTON_HEIGHT + BUTTON_SPACING_Y) >>

\* One iteration of the loop of _build_buttons: the Button of entry idx.
Button(gs, idx, cols) ==
    LET p == ComputeButtonPosition(idx, Len(gs), cols)
    IN  [entry |-> gs[idx + 1],
         rect |-> Rect(p[1], p[2], BUTTON_WIDTH, BUTTON_HEIGHT)]

\* _build_buttons(): one Button per entry, in catalog order.
BuildButtons(gs, cols) == [i \in 1..Len(gs) |-> Button(gs, i - 1, cols)]

\* ------------------------------------------------------ hit resolution
\* the button indices whose rectangle contains pos
Colliding(btns, pos) ==
    {i \in 0..(Len(btns) - 1) : CollidePoint(btns[i + 1].rect, pos)}

SetMin(S) == CHOOSE m \in S : \A k \in S : m <= k

\* Bug: the scan forgets `and button.entry.enabled`.
FirstHit_NoEnabledCheck(btns, pos) ==
    IF Colliding(btns, pos) = {} THEN None ELSE SetMin(Colliding(btns, pos))

\* Bug: "no hit" is reported as index 0 instead of None.
FirstHit_DefaultZero(btns, pos) ==
    LET hits == {i \in Colliding(btns, pos) : btns[i + 1].entry.enabled}
    IN  IF hits = {} THEN 0 ELSE SetMin(hits)

\* The scan shared by run (hover) and _handle_click: the first index, in
\* catalog order, whose rect contains pos and whose entry is enabled.
FirstHit(btns, pos) ==
    LET hits == {i \in Colliding(btns, pos) : btns[i + 1].entry.enabled}
    IN  IF hits = {} THEN None ELSE SetMin(hits)

\* --------------------------------------------------------------- inputs
\* Pointer / press positions explored: a point outside every button, the
\* top-left corner of every button (inside: the edge is inclusive) and the
\* points just past the right and the bottom edge of the first button.
Points(btns) ==
    {<<0, 0>>}
    \cup {<<btns[i].rect.x, btns[i].rect.y>> : i \in 1..Len(btns)}
    \cup (IF Len(btns) = 0 THEN {}
          ELSE {<<btns[1].rect.x + btns[1].rect.w, btns[1].rect.y>>,
                <<btns[1].rect.x, btns[1].rect.y + btns[1].rect.h>>})

Event(type, pos) == [type |-> type, pos |-> pos]

\* The events the loop distinguishes: QUIT, MOUSEBUTTONDOWN with a position,
\* and every other type.
Events(btns) ==
    {Event("QUIT", NoPos), Event("OTHER", NoPos)}
    \cup {Event("MOUSEBUTTONDOWN", p) : p \in Points(btns)}

\* ---------------------------------------------------------------- state
VARIABLES
    games,            \* self.games
    columns,          \* self.BUTTON_COLUMNS
    buttons,          \* self.buttons (entry and rect of each Button)
    icons,            \* per entry: entry.icon is set
    icon_surfaces,    \* per button: icon_surface, "surface" or "none"
    logo,             \* self.logo: "surface", "none", "unset" before _load_logo
    hovered_button,   \* self.hovered_button
    hover_src,        \* which assignment wrote hovered_button last
    mouse_pos,        \* run's local mouse_pos
    pc,               \* position of the control flow
    batch,            \* number of drained events the for loop has not reached
    event,            \* the loop variable event of run
    cur,              \* idx of _handle_click while it is inside _launch_game
    display,          \* who configured the pygame display last
    running,          \* sub-applications inside run_game
    exit_code,        \* process exit code, None while the process lives
    raised,           \* factory() or run_game() has raised
    presses,          \* press events handed to _handle_click
    factory_calls,    \* entry.factory() invocations
    click_factories,  \* indices whose factory the current _handle_click invoked
    click_runs        \* run_game calls made by the current _handle_click

vars == << games, columns, buttons, icons, icon_surfaces, logo,
           hovered_button, hover_src, mouse_pos, pc,
           batch, event, cur, display, running, exit_code, raised,
           presses,
           factory_calls, click_factories, click_runs >>

catalog_vars == << games, columns, buttons, icons, icon_surfaces, logo >>
count_vars == << presses, factory_calls, click_factories, click_runs >>
exit_vars == << exit_code, raised >>

\* State after GameLauncher.__init__ for a given catalog and column count,
\* except buttons.
Constructed(gs, cols) ==
    /\ games = gs
    /\ columns = cols
    /\ hovered_button = None
    /\ hover_src = "init"
    /\ mouse_pos = NoPos
    /\ batch = 0
    /\ event = Event("None", NoPos)
    /\ cur = None
    /\ display = "launcher"
    /\ running = 0
    /\ exit_code = None
    /\ raised = FALSE
    /\ presses = 0
    /\ factory_calls = 0
    /\ click_factories = << >>
    /\ click_runs = 0

\* The launcher as constructed, about to enter run. Here every entry with a
\* factory names an icon (as in DEFAULT_GAMES) and every image loads; the
\* failing loads are explored by SpecAssets.
Init ==
    /\ \E gs \in Catalogs : Constructed(gs, BUTTON_COLUMNS)
    /\ buttons = BuildButtons(games, columns)
    /\ icons = [i \in 1..Len(games) |-> games[i].factory]
    /\ icon_surfaces = [i \in 1..Len(games) |->
                          IF icons[i] THEN "surface" ELSE "none"]
    /\ logo = "surface"
    /\ pc = "loop"

\* ------------------------------------------------------------- run loop
\* Bug: line 207 (self.hovered_button = None) is missing, so a scan without
\* a match keeps the previous hover.
HoverScan_NoReset ==
    /\ pc = "loop"
    /\ \E p \in Points(buttons) :
         /\ mouse_pos' = p
         /\ hovered_button' = IF FirstHit(buttons, p) = None
                                THEN hovered_button
                                ELSE FirstHit(buttons, p)
    /\ hover_src' = "scan"
    /\ pc' = "draw"
    /\ UNCHANGED << catalog_vars, batch, event, cur, display, running,
                    exit_vars, count_vars >>

\* run, lines 206-211: sample the pointer and recompute the hover.
HoverScan ==
    /\ pc = "loop"
    /\ \E p \in Points(buttons) :
         /\ mouse_pos' = p
         /\ hovered_button' = FirstHit(buttons, p)
    /\ hover_src' = "scan"
    /\ pc' = "draw"
    /\ UNCHANGED << catalog_vars, batch, event, cur, display, running,
                    exit_vars, count_vars >>

\* Bug: the shadow is drawn by offsetting the button's own rect in place
\* (shadow_rect = rect; shadow_rect.move_ip(6, 6)) instead of a new Rect.
DrawUi_ShadowAliasesRect ==
    /\ pc = "draw"
    /\ pc' = "drain"
    /\ buttons' = [i \in 1..Len(buttons) |->
                     [buttons[i] EXCEPT !.rect.x = @ + 6, !.rect.y = @ + 6]]
    /\ UNCHANGED << games, columns, icons, icon_surfaces, logo,
                    hovered_button, hover_src, mouse_pos, batch, event, cur,
                    display, running, exit_vars, count_vars >>

\* draw_ui(): reads the state and presents a frame.
DrawUi ==
    /\ pc = "draw"
    /\ pc' = "drain"
    /\ UNCHANGED << catalog_vars, hovered_button, hover_src, mouse_pos, batch,
                    event, cur, display, running, exit_vars,
                    count_vars >>

\* pygame.event.get(): drain the queue into a list of up to MaxBatch events.
\* What each event is is read when the for loop reaches it, and is chosen
\* there.
EventGet ==
    /\ pc = "drain"
    /\ \E n \in 0..MaxBatch : batch' = n
    /\ pc' = "events"
    /\ UNCHANGED << catalog_vars, hovered_button, hover_src, mouse_pos, event,
                    cur, display, running, exit_vars, count_vars >>

\* the for loop binds the next event of the list to `event`
Iterate(ev) ==
    /\ pc = "events"
    /\ batch > 0
    /\ ev \in Events(buttons)
    /\ event' = ev
    /\ batch' = batch - 1

\* Bug: QUIT only clears a `running` flag and tears pygame down; the for
\* loop goes on with the rest of the list.
QuitEvent_RunningFalse ==
    /\ \E ev \in Events(buttons) : ev.type = "QUIT" /\ Iterate(ev)
    /\ display' = "closed"
    /\ UNCHANGED << catalog_vars, hovered_button, hover_src, mouse_pos, pc,
                    cur, running, exit_vars, count_vars >>

\* QUIT: pygame.quit(); sys.exit()
QuitEvent ==
    /\ \E ev \in Events(buttons) : ev.type = "QUIT" /\ Iterate(ev)
    /\ display' = "closed"
    /\ exit_code' = 0
    /\ pc' = "exited"
    /\ UNCHANGED raised
    /\ UNCHANGED << catalog_vars, hovered_button, hover_src, mouse_pos, cur,
                    running, count_vars >>

\* an event of any other type is skipped
OtherEvent ==
    /\ \E ev \in Events(buttons) : ev.type = "OTHER" /\ Iterate(ev)
    /\ UNCHANGED << catalog_vars, hovered_button, hover_src, mouse_pos, pc,
                    cur, display, running, exit_vars, count_vars >>

\* MOUSEBUTTONDOWN: _handle_click(event.pos), lines 143-145: scan for the
\* hit; without one the handler returns, with one it enters _launch_game.
HandleClick ==
    /\ \E ev \in Events(buttons) : ev.type = "MOUSEBUTTONDOWN" /\ Iterate(ev)
    /\ presses < MaxPresses
    /\ presses' = presses + 1
    /\ click_factories' = << >>
    /\ click_runs' = 0
    /\ LET hit == FirstHit(buttons, event'.pos)
       IN  IF hit = None
             THEN UNCHANGED << pc, cur >>
             ELSE cur' = hit /\ pc' = "launch"
    /\ UNCHANGED << catalog_vars, hovered_button, hover_src, mouse_pos,
                    display, running, exit_vars, factory_calls >>

\* Bug: the factory is called a second time to obtain the object whose
\* run_game is called.
LaunchGame_FactoryTwice ==
    /\ pc = "launch"
    /\ LET entry == buttons[cur + 1].entry
       IN  IF ~entry.enabled \/ ~entry.factory
             THEN /\ pc' = "set_hover"
                  /\ UNCHANGED << exit_vars, factory_calls, click_factories >>
             ELSE /\ factory_calls' = factory_calls + 2
                  /\ click_factories' = Append(Append(click_factories, cur), cur)
                  /\ \/ pc' = "run_game" /\ UNCHANGED exit_vars
                     \/ pc' = "crashed" /\ exit_code' = 1 /\ raised' = TRUE
    /\ UNCHANGED << catalog_vars, hovered_button, hover_src, mouse_pos, batch,
                    event, cur, display, running, presses, click_runs >>

\* Bug: the guard tests only the factory (`if entry.factory is None`), so a
\* disabled entry that has a factory is launched.
LaunchGame_GuardFactoryOnly ==
    /\ pc = "launch"
    /\ LET entry == buttons[cur + 1].entry
       IN  IF ~entry.factory
             THEN /\ pc' = "set_hover"
                  /\ UNCHANGED << exit_vars, factory_calls, click_factories >>
             ELSE /\ factory_calls' = factory_calls + 1
                  /\ click_factories' = Append(click_factories, cur)
                  /\ \/ pc' = "run_game" /\ UNCHANGED exit_vars
                     \/ pc' = "crashed" /\ exit_code' = 1 /\ raised' = TRUE
    /\ UNCHANGED << catalog_vars, hovered_button, hover_src, mouse_pos, batch,
                    event, cur, display, running, presses, click_runs >>

\* _launch_game, lines 134-138: the guard, then entry.factory(), which
\* returns an instance or raises.
LaunchGame ==
    /\ pc = "launch"
    /\ LET entry == buttons[cur + 1].entry
       IN  IF ~entry.enabled \/ ~entry.factory
             THEN /\ pc' = "set_hover"
                  /\ UNCHANGED << exit_vars, factory_calls, click_factories >>
             ELSE /\ factory_calls' = factory_calls + 1
                  /\ click_factories' = Append(click_factories, cur)
                  /\ \/ pc' = "run_game" /\ UNCHANGED exit_vars
                     \/ pc' = "crashed" /\ exit_code' = 1 /\ raised' = TRUE
    /\ UNCHANGED << catalog_vars, hovered_button, hover_src, mouse_pos, batch,
                    event, cur, display, running, presses,
                    click_runs >>

\* Bug: the sub-application is started without waiting for it (as on a
\* thread) and _launch_game goes on.
RunGame_NonBlocking ==
    /\ pc = "run_game"
    /\ running' = running + 1
    /\ click_runs' = click_runs + 1
    /\ display' = "game"
    /\ pc' = "reset"
    /\ UNCHANGED << catalog_vars, hovered_button, hover_src, mouse_pos, batch,
                    event, cur, exit_vars, presses, factory_calls,
                    click_factories >>

\* line 139: game_instance.run_game() is entered; the sub-application takes
\* the display.
RunGame ==
    /\ pc = "run_game"
    /\ running' = running + 1
    /\ click_runs' = click_runs + 1
    /\ display' = "game"
    /\ pc' = "in_game"
    /\ UNCHANGED << catalog_vars, hovered_button, hover_src, mouse_pos, batch,
                    event, cur, exit_vars, presses, factory_calls,
                    click_factories >>

\* Bug: _launch_game returns without calling _reset_display.
RunGameReturn_NoReset ==
    /\ pc = "in_game"
    /\ running' = running - 1
    /\ pc' = "set_hover"
    /\ UNCHANGED << catalog_vars, hovered_button, hover_src, mouse_pos, batch,
                    event, cur, display, exit_vars, count_vars >>

\* run_game() returns
RunGameReturn ==
    /\ pc = "in_game"
    /\ running' = running - 1
    /\ pc' = "reset"
    /\ UNCHANGED << catalog_vars, hovered_button, hover_src, mouse_pos, batch,
                    event, cur, display, exit_vars, count_vars >>

\* Bug (or a deliberate isolation of failures): the exception of run_game
\* is caught in _launch_game, which then resets the display.
RunGameRaise_Caught ==
    /\ pc = "in_game"
    /\ running' = running - 1
    /\ pc' = "reset"
    /\ raised' = TRUE
    /\ UNCHANGED << catalog_vars, hovered_button, hover_src, mouse_pos, batch,
                    event, cur, display, exit_code, count_vars >>

\* run_game() raises: nothing catches it up to the top of the process
RunGameRaise ==
    /\ pc = "in_game"
    /\ running' = running - 1
    /\ pc' = "crashed"
    /\ exit_code' = 1
    /\ raised' = TRUE
    /\ UNCHANGED << catalog_vars, hovered_button, hover_src, mouse_pos, batch,
                    event, cur, display, count_vars >>

\* line 140: _reset_display()
ResetDisplay ==
    /\ pc = "reset"
    /\ display' = "launcher"
    /\ pc' = "set_hover"
    /\ UNCHANGED << catalog_vars, hovered_button, hover_src, mouse_pos, batch,
                    event, cur, running, exit_vars, count_vars >>

\* Bug: the click also gives the button a pressed look by moving its rect
\* in place (rect.move_ip(0, 2)).
SetHovered_MovesRect ==
    /\ pc = "set_hover"
    /\ hovered_button' = cur
    /\ hover_src' = "click"
    /\ cur' = None
    /\ pc' = "events"
    /\ buttons' = [buttons EXCEPT ![cur + 1].rect.y = @ + 2]
    /\ UNCHANGED << games, columns, icons, icon_surfaces, logo, mouse_pos,
                    batch, event, display, running, exit_vars, count_vars >>

\* _handle_click, lines 146-147, after _launch_game returned
SetHovered ==
    /\ pc = "set_hover"
    /\ hovered_button' = cur
    /\ hover_src' = "click"
    /\ cur' = None
    /\ pc' = "events"
    /\ UNCHANGED << catalog_vars, mouse_pos, batch, event, display, running,
                    exit_vars, count_vars >>

\* the for loop over the drained events is exhausted
EventsDone ==
    /\ pc = "events"
    /\ batch = 0
    /\ pc' = "tick"
    /\ UNCHANGED << catalog_vars, hovered_button, hover_src, mouse_pos, batch,
                    event, cur, display, running, exit_vars,
                    count_vars >>

\* Bug: the hover scan sits before the while loop, so the next iteration
\* starts at draw_ui with the hover it finds.
Tick_KeepHover ==
    /\ pc = "tick"
    /\ pc' = "draw"
    /\ UNCHANGED << catalog_vars, hovered_button, hover_src, mouse_pos, batch,
                    event, cur, display, running, exit_vars, count_vars >>

\* clock.tick(60), then the next iteration
Tick ==
    /\ pc = "tick"
    /\ pc' = "loop"
    /\ UNCHANGED << catalog_vars, hovered_button, hover_src, mouse_pos, batch,
                    event, cur, display, running, exit_vars, count_vars >>

Next ==
    \/ HoverScan
    \/ DrawUi
    \/ EventGet
    \/ QuitEvent
    \/ OtherEvent
    \/ HandleClick
    \/ LaunchGame
    \/ RunGame
    \/ RunGameReturn
    \/ RunGameRaise
    \/ ResetDisplay
    \/ SetHovered
    \/ EventsDone
    \/ Tick

Spec == Init /\ [][Next]_vars

\* ------------------------------------------------ layout specification
\* The layout computation applied to catalogs of every size up to
\* MaxLayoutGames and every column count up to MaxColumns, one button of
\* the _build_buttons loop per step.
InitLayout ==
    /\ \E n \in 0..MaxLayoutGames, c \in 1..MaxColumns :
         Constructed([i \in 1..n |-> GameEntry(TRUE, TRUE)], c)
    /\ buttons = << >>
    /\ icons = [i \in 1..Len(games) |-> FALSE]
    /\ icon_surfaces = << >>
    /\ logo = "unset"
    /\ pc = "build"

\* Bug: load_image is called without try/except, so a failing icon ends
\* the construction with the exception.
BuildButton_IconErrorPropagates ==
    /\ pc = "build"
    /\ Len(buttons) < Len(games)
    /\ \/ /\ buttons' = Append(buttons, Button(games, Len(buttons), columns))
          /\ icon_surfaces' = Append(icon_surfaces,
                IF icons[Len(buttons) + 1] THEN "surface" ELSE "none")
          /\ UNCHANGED << pc, exit_vars >>
       \/ /\ icons[Len(buttons) + 1]
          /\ pc' = "crashed"
          /\ exit_code' = 1
          /\ raised' = TRUE
          /\ UNCHANGED << buttons, icon_surfaces >>
    /\ UNCHANGED << games, columns, icons, logo, hovered_button, hover_src,
                    mouse_pos, batch, event, cur, display, running,
                    count_vars >>

\* One iteration of the loop of _build_buttons, lines 114-125: the rect, the
\* icon (load_image returns a surface, or raises and is caught) and the
\* append.
BuildButton ==
    /\ pc = "build"
    /\ Len(buttons) < Len(games)
    /\ buttons' = Append(buttons, Button(games, Len(buttons), columns))
    /\ \E loaded \in {"surface", "none"} :
         /\ (~icons[Len(buttons) + 1]) => loaded = "none"
         /\ icon_surfaces' = Append(icon_surfaces, loaded)
    /\ UNCHANGED << games, columns, icons, logo, hovered_button, hover_src,
                    mouse_pos, pc, batch, event, cur, display, running,
                    exit_vars, count_vars >>

\* _build_buttons returns the list
BuildDone ==
    /\ pc = "build"
    /\ Len(buttons) = Len(games)
    /\ pc' = "built"
    /\ UNCHANGED << catalog_vars, hovered_button, hover_src, mouse_pos, batch,
                    event, cur, display, running, exit_vars, count_vars >>

NextLayout == BuildButton \/ BuildDone

SpecLayout == InitLayout /\ [][NextLayout]_vars

\* ------------------------------------------------- asset specification
\* Construction with every outcome of the image loads, followed by run.
\* The entries are of the two kinds of DEFAULT_GAMES: a game, which names an
\* icon, and a disabled placeholder, which names none.
AssetEntryKinds == {GameEntry(TRUE, TRUE), GameEntry(FALSE, FALSE)}

InitAssets ==
    /\ \E n \in 0..MaxAssetGames :
         \E gs \in [1..n -> AssetEntryKinds] :
            Constructed(gs, BUTTON_COLUMNS)
    /\ icons = [i \in 1..Len(games) |-> games[i].factory]
    /\ buttons = << >>
    /\ icon_surfaces = << >>
    /\ logo = "unset"
    /\ pc = "build"

\* _load_logo(), lines 88-93: the surface, or None when load_image raises;
\* the constructor then finishes and run starts.
LoadLogo ==
    /\ pc = "built"
    /\ logo' \in {"surface", "none"}
    /\ pc' = "loop"
    /\ UNCHANGED << games, columns, buttons, icons, icon_surfaces,
                    hovered_button, hover_src, mouse_pos, batch, event, cur,
                    display, running, exit_vars, count_vars >>

NextAssets == BuildButton \/ BuildDone \/ LoadLogo \/ Next

SpecAssets == InitAssets /\ [][NextAssets]_vars

\* ------------------------------------------------ launch specification
\* _launch_game(entry) called on a constructed launcher with any entry of
\* its catalog, up to its return (pc = "set_hover") or its failure.
InitLaunch ==
    /\ \E gs \in Catalogs :
         /\ games = gs
         /\ cur \in 0..(Len(gs) - 1)
    /\ columns = BUTTON_COLUMNS
    /\ buttons = BuildButtons(games, columns)
    /\ icons = [i \in 1..Len(games) |-> games[i].factory]
    /\ icon_surfaces = [i \in 1..Len(games) |->
                          IF icons[i] THEN "surface" ELSE "none"]
    /\ logo = "surface"
    /\ hovered_button = None
    /\ hover_src = "init"
    /\ mouse_pos = NoPos
    /\ batch = 0
    /\ event = Event("None", NoPos)
    /\ display = "launcher"
    /\ running = 0
    /\ exit_code = None
    /\ raised = FALSE
    /\ presses = 0
    /\ factory_calls = 0
    /\ click_factories = << >>
    /\ click_runs = 0
    /\ pc = "launch"

NextLaunch ==
    \/ LaunchGame
    \/ RunGame
    \/ RunGameReturn
    \/ RunGameRaise
    \/ ResetDisplay

SpecLaunch == InitLaunch /\ [][NextLaunch]_vars

\* ================================================================ claims
Indices == 0..(Len(buttons) - 1)
EntryOf(i) == buttons[i + 1].entry
RectOf(i) == buttons[i + 1].rect

\* the control flow is inside _launch_game (called from _handle_click)
InLaunch == pc \in {"launch", "run_game", "in_game", "reset"}
\* the launcher's own frame work: hover scan, render, event loop, throttle
InFrame == pc \in {"loop", "draw", "drain", "events", "tick"}
\* `event` is a press whose handling _handle_click has completed
PressHandled == event.type = "MOUSEBUTTONDOWN" /\ (InFrame \/ pc = "exited")

\* C1: a press inside the rectangle of an enabled button with a factory
\* makes _handle_click invoke that entry's factory exactly once and run_game
\* exactly once, and no other entry's factory: while the press is being
\* handled only that entry's factory has been invoked, at most once, and once
\* _launch_game has returned both calls have been made exactly once. Over the
\* whole run the factory invocations never outnumber the presses processed.
C1_OneActivationPerPress ==
    /\ factory_calls <= presses
    /\ Len(click_factories) <= 1
    /\ click_runs <= Len(click_factories)
    /\ \A i \in Indices :
         ( /\ event.type = "MOUSEBUTTONDOWN"
           /\ CollidePoint(RectOf(i), event.pos)
           /\ EntryOf(i).enabled /\ EntryOf(i).factory )
         => /\ click_factories \in {<< >>, <<i>>}
            /\ (InLaunch \/ pc = "set_hover") => cur = i
            /\ (pc = "set_hover" \/ PressHandled)
                 => click_factories = <<i>> /\ click_runs = 1

\* the second press of a run has launched its entry and _launch_game is back
C1_Witness ==
    /\ pc = "set_hover"
    /\ presses = 2
    /\ factory_calls = 2
    /\ EntryOf(cur).enabled /\ EntryOf(cur).factory
    /\ CollidePoint(RectOf(cur), event.pos)
    /\ click_factories = <<cur>>
    /\ click_runs = 1

\* pos lies inside a disabled button's rectangle, or outside every rectangle
DeadPosition(pos) ==
    \/ \E i \in Indices : CollidePoint(RectOf(i), pos) /\ ~EntryOf(i).enabled
    \/ \A i \in Indices : ~CollidePoint(RectOf(i), pos)

\* C2: a press inside a disabled button's rectangle or outside every
\* rectangle is a no-op: the step that handles it invokes no factory, starts
\* no sub-application, leaves the display and hovered_button as they are and
\* stays in the event loop, and nothing is launched for it afterwards.
C2_DeadPressIsNoOp ==
    /\ [][ (presses' = presses + 1 /\ DeadPosition(event'.pos))
           => /\ hovered_button' = hovered_button
              /\ hover_src' = hover_src
              /\ display' = display
              /\ running' = running
              /\ factory_calls' = factory_calls
              /\ cur' = cur
              /\ pc' = "events" ]_vars
    /\ [] ( (event.type = "MOUSEBUTTONDOWN" /\ DeadPosition(event.pos))
            => click_factories = << >> /\ click_runs = 0 /\ ~InLaunch )

\* a press on a disabled button has been handled while another button, set
\* by an earlier click, is still the hovered one
C2_Witness ==
    /\ pc = "events"
    /\ event.type = "MOUSEBUTTONDOWN"
    /\ \E i \in Indices : CollidePoint(RectOf(i), event.pos) /\ ~EntryOf(i).enabled
    /\ hovered_button # None
    /\ hover_src = "click"
    /\ presses = 2

\* C3: hovered_button is None or the index of a button whose entry is
\* enabled, in every reachable state.
C3_HoveredIsNoneOrEnabled ==
    \/ hovered_button = None
    \/ hovered_button \in Indices /\ EntryOf(hovered_button).enabled

\* hovered_button was assigned by _handle_click after a launch
C3_Witness ==
    /\ hovered_button # None
    /\ hover_src = "click"
    /\ factory_calls > 0
    /\ pc = "events"

\* C4: whenever the launcher does frame work (hover scan, draw_ui, event
\* draining and dispatch, throttle) the display is the one the launcher
\* acquired: after every return of run_game, _reset_display has run first.
C4_ResetBeforeFrameWork ==
    (InFrame \/ pc = "set_hover") => display = "launcher"

\* the launcher renders after its second launch has returned
C4_Witness ==
    /\ pc = "draw"
    /\ factory_calls = 2
    /\ click_runs = 1
    /\ display = "launcher"

\* C5: at every draw_ui call hovered_button is the result of the hover scan
\* of this iteration's pointer sample, never the value _handle_click stored.
C5_DrawUsesFreshHover ==
    pc = "draw"
    => /\ hover_src = "scan"
       /\ mouse_pos # NoPos
       /\ hovered_button = FirstHit(buttons, mouse_pos)

\* the first render after a launch: the click had stored an index, the scan
\* found the pointer over no enabled button
C5_Witness ==
    /\ pc = "draw"
    /\ factory_calls > 0
    /\ click_runs = 1
    /\ event.type = "MOUSEBUTTONDOWN"
    /\ FirstHit(buttons, event.pos) # None
    /\ hovered_button = None

\* the launcher's own frame state
frame_vars == << hovered_button, hover_src, mouse_pos, batch, event, presses,
                 factory_calls, click_factories >>

\* C6: the hand-off is synchronous and exclusive: at most one
\* sub-application runs, and while one runs the launcher is stopped inside
\* run_game and the display is the sub-application's; from the return of the
\* factory call to the end of run_game the launcher performs no hover scan,
\* no draw_ui, no event handling and no further launch.
C6_BlockingHandOff ==
    /\ [] ( /\ running \in {0, 1}
            /\ (running = 1) <=> (pc = "in_game")
            /\ (pc = "in_game") => display = "game"
            /\ (display = "launcher") => running = 0 )
    /\ [][ (pc \in {"run_game", "in_game"})
           => /\ UNCHANGED frame_vars
              /\ pc' \in {"in_game", "reset", "crashed"} ]_vars

\* a sub-application runs while drained events are still waiting
C6_Witness ==
    /\ pc = "in_game"
    /\ running = 1
    /\ batch > 0
    /\ display = "game"

\* C7: no launcher state holds an enabled entry without a factory (such a
\* catalog is rejected when it is constructed).
C7_EnabledEntriesHaveFactory ==
    \A i \in 1..Len(games) : games[i].enabled => games[i].factory

\* C8: a QUIT event tears pygame down and ends the process with code 0 in
\* the step that handles it; after that nothing happens: no event left in
\* the drained list is handled, no factory is invoked, no frame is rendered.
C8_QuitExitsImmediately ==
    /\ [][ (batch' = batch - 1 /\ event'.type = "QUIT")
           => /\ pc' = "exited"
              /\ exit_code' = 0
              /\ display' = "closed"
              /\ UNCHANGED << hovered_button, count_vars, running >> ]_vars
    /\ [][ (pc = "exited") => UNCHANGED vars ]_vars
    /\ [] ( (pc = "exited")
            => exit_code = 0 /\ display = "closed" /\ event.type = "QUIT" )
    /\ [] ( (display = "closed" \/ exit_code = 0) => pc = "exited" )

\* the process has exited on a QUIT with events of the list left unhandled
C8_Witness ==
    /\ pc = "exited"
    /\ exit_code = 0
    /\ batch > 0
    /\ presses < MaxPresses

\* C9: an exception of the factory or of run_game is not caught: the process
\* is terminated with the failure exit code the moment it is raised,
\* _reset_display is not run (the display stays as the failing step found
\* it) and nothing happens afterwards.
C9_LaunchFailurePropagates ==
    /\ [] ( raised => pc = "crashed" )
    /\ [] ( (pc = "crashed")
            => /\ raised /\ exit_code = 1
               /\ cur # None
               /\ (click_runs = 1) => display = "game" )
    /\ [][ (pc' = "crashed" /\ pc # "crashed")
           => /\ pc \in {"launch", "in_game"}
              /\ UNCHANGED << display, hovered_button, hover_src >> ]_vars
    /\ [][ (pc = "crashed") => UNCHANGED vars ]_vars

\* run_game has raised: the process is down with the display still the
\* sub-application's and events of the list left
C9_Witness ==
    /\ pc = "crashed"
    /\ raised
    /\ click_runs = 1
    /\ display = "game"
    /\ batch > 0

Abs(a) == IF a >= 0 THEN a ELSE 0 - a

\* C10: every row of the layout is horizontally centered: with
\* buttons_in_row = min(C, N - row*C) and row_width = buttons_in_row*W +
\* (buttons_in_row - 1)*Sx, the x of the row's first button plus row_width/2
\* differs from WIDTH/2 by at most 1 (twice the sum differs from WIDTH by at
\* most 2), and the button of column col sits at col*(W + Sx) from it.
C10_RowsCentered ==
    \A i \in 1..Len(buttons) :
        LET row == (i - 1) \div columns
            col == (i - 1) % columns
            buttons_in_row == Min(columns, Len(games) - row * columns)
            row_width == buttons_in_row * BUTTON_WIDTH
                         + (buttons_in_row - 1) * BUTTON_SPACING_X
            row_start_x == buttons[row * columns + 1].rect.x
        IN  /\ buttons_in_row >= 1
            /\ Abs(2 * row_start_x + row_width - WIDTH) <= 2
            /\ buttons[i].rect.x
                 = row_start_x + col * (BUTTON_WIDTH + BUTTON_SPACING_X)

\* a layout is complete whose last row holds a single button below a full row
C10_Witness ==
    /\ pc = "built"
    /\ Len(buttons) = Len(games)
    /\ columns > 1
    /\ Len(games) > columns
    /\ Len(games) % columns = 1

\* C11: with 5 entries in 3 columns, indices 0..2 form row 0, centered with
\* the width of three buttons, and indices 3..4 form row 1, centered with the
\* width of two; the two rows start at different x; within a row x grows by
\* W + Sx per column, and y = Top + row*(H + Sy).
C11_FiveEntriesThreeColumns ==
    (Len(games) = 5 /\ columns = 3 /\ pc = "built")
    => LET step == BUTTON_WIDTH + BUTTON_SPACING_X
           start0 == (WIDTH - (3 * BUTTON_WIDTH + 2 * BUTTON_SPACING_X)) \div 2
           start1 == (WIDTH - (2 * BUTTON_WIDTH + BUTTON_SPACING_X)) \div 2
       IN  /\ Len(buttons) = 5
           /\ \A k \in 0..2 :
                /\ buttons[k + 1].rect.x = start0 + k * step
                /\ buttons[k + 1].rect.y = BUTTON_TOP
           /\ \A k \in 0..1 :
                /\ buttons[k + 4].rect.x = start1 + k * step
                /\ buttons[k + 4].rect.y
                     = BUTTON_TOP + BUTTON_HEIGHT + BUTTON_SPACING_Y
           /\ buttons[1].rect.x # buttons[4].rect.x
           /\ << buttons[1].rect.x, buttons[4].rect.x >> = << 90, 340 >>
           /\ << buttons[1].rect.y, buttons[4].rect.y >> = << 320, 540 >>

\* the five buttons of a 3-column layout are built
C11_Witness ==
    /\ pc = "built"
    /\ Len(games) = 5
    /\ columns = 3
    /\ Len(buttons) = 5

C13_DrawUiMutatesNothing ==
    [][ (pc = "draw")
        => /\ pc' = "drain"
           /\ UNCHANGED << games, columns, buttons, icons, icon_surfaces,
                           logo, hovered_button, hover_src >> ]_vars

\* a frame of the default catalog (enabled and disabled buttons) has been
\* rendered with a button hovered
C13_Witness ==
    /\ pc = "drain"
    /\ hovered_button # None
    /\ Len(buttons) = 5
    /\ \E i \in Indices : ~EntryOf(i).enabled

\* C14: asset failures are recovered locally. Whatever the image loads do,
\* construction goes on to its end without an error; every entry gets its
\* button, in catalog order, with the computed rect and with icon_surface
\* None when the entry names no icon or its icon fails to load; logo is a
\* surface or None; and once construction is over no frame, click or launch
\* changes the buttons, their rects, their icons or the logo.
C14_AssetFailuresRecovered ==
    /\ [] ( /\ Len(buttons) <= Len(games)
            /\ Len(icon_surfaces) = Len(buttons)
            /\ \A i \in 1..Len(buttons) :
                 /\ buttons[i] = Button(games, i - 1, columns)
                 /\ buttons[i].entry = games[i]
                 /\ icon_surfaces[i] \in {"surface", "none"}
                 /\ (~icons[i]) => icon_surfaces[i] = "none"
            /\ (pc # "build") => Len(buttons) = Len(games)
            /\ (pc \in {"build", "built"})
                 => ~raised /\ exit_code = None /\ logo = "unset"
                    /\ ENABLED (BuildButton \/ BuildDone \/ LoadLogo)
            /\ (pc \notin {"build", "built"}) => logo \in {"surface", "none"}
            /\ (pc = "crashed") => cur # None )
    /\ [][ (pc \notin {"build", "built"})
           => UNCHANGED << games, buttons, icons, icon_surfaces, logo >> ]_vars

\* an icon and the logo failed to load; the launcher was constructed all the
\* same, has launched a game and renders the next frame
C14_Witness ==
    /\ pc = "draw"
    /\ factory_calls > 0
    /\ Len(buttons) = 2
    /\ \E i \in 1..2 : icons[i] /\ icon_surfaces[i] = "none"
    /\ \E i \in 1..2 : icons[i] /\ icon_surfaces[i] = "surface"
    /\ logo = "none"

\* C15: with an empty catalog the launcher has no buttons and does no layout
\* work; hovered_button is None in every frame, presses launch nothing, no
\* error occurs, and the frame loop can always go on until a QUIT event ends
\* the process.
C15_EmptyCatalog ==
    (Len(games) = 0)
    => /\ buttons = << >>
       /\ icon_surfaces = << >>
       /\ ~ENABLED BuildButton
       /\ hovered_button = None
       /\ factory_calls = 0
       /\ click_factories = << >>
       /\ cur = None
       /\ running = 0
       /\ ~raised
       /\ pc \in {"build", "built", "loop", "draw", "drain", "events", "tick",
                  "exited"}
       /\ (pc = "exited") <=> (exit_code = 0)
       /\ (pc # "exited") => display = "launcher" /\ ENABLED NextAssets

\* with an empty catalog a press has been handled and the next frame renders
C15_Witness ==
    /\ Len(games) = 0
    /\ pc = "draw"
    /\ presses = 2
    /\ event.type = "MOUSEBUTTONDOWN"
    /\ hovered_button = None

\* button i is a candidate of the scan for pos: its rect contains pos and
\* its entry is enabled
Candidate(i, pos) == CollidePoint(RectOf(i), pos) /\ EntryOf(i).enabled

\* C16: right after the per-frame hover scan hovered_button is the smallest
\* index whose rect contains the pointer and whose entry is enabled, and
\* None when there is no such index (so None over a disabled button that no
\* enabled button covers).
C16_HoverIsFirstMatch ==
    (pc = "draw")
    => \/ /\ hovered_button = None
          /\ \A i \in Indices : ~Candidate(i, mouse_pos)
       \/ /\ hovered_button \in Indices
          /\ Candidate(hovered_button, mouse_pos)
          /\ \A j \in Indices :
               Candidate(j, mouse_pos) => hovered_button <= j

\* the scan found the pointer over a disabled button while the previous
\* click had left an index in hovered_button
C16_Witness ==
    /\ pc = "draw"
    /\ hovered_button = None
    /\ \E i \in Indices :
         CollidePoint(RectOf(i), mouse_pos) /\ ~EntryOf(i).enabled
    /\ factory_calls > 0
    /\ click_runs = 1

\* the entry _launch_game is called with is disabled or has no factory
RejectedEntry == ~EntryOf(cur).enabled \/ ~EntryOf(cur).factory

\* C17: _launch_game called with a disabled or factory-less entry returns at
\* once as a no-op: no factory call, no run_game, no _reset_display, no
\* exception, and nothing of the launcher's state is changed.
C17_RejectedLaunchIsNoOp ==
    /\ [][ (pc = "launch" /\ RejectedEntry)
           => /\ pc' = "set_hover"
              /\ UNCHANGED << catalog_vars, hovered_button, hover_src,
                              mouse_pos, batch, event, cur, display, running,
                              exit_vars, count_vars >> ]_vars
    /\ [] ( RejectedEntry
            => /\ pc \in {"launch", "set_hover"}
               /\ factory_calls = 0
               /\ click_factories = << >>
               /\ click_runs = 0
               /\ running = 0
               /\ display = "launcher"
               /\ ~raised
               /\ exit_code = None )

\* _launch_game has returned from a call with a disabled entry that has a
\* factory
C17_Witness ==
    /\ pc = "set_hover"
    /\ ~EntryOf(cur).enabled
    /\ EntryOf(cur).factory
    /\ factory_calls = 0
    /\ display = "launcher"

\* two rectangles share a point (right and bottom edges excluded)
Overlap(a, b) ==
    /\ a.x < b.x + b.w /\ b.x < a.x + a.w
    /\ a.y < b.y + b.h /\ b.y < a.y + a.h

\* C18: the rectangles of the layout never overlap: any two distinct buttons
\* are disjoint, so a position lies inside at most one rectangle and the
\* catalog-order tie-break of the scans has nothing to decide.
C18_RectsDisjoint ==
    /\ \A i, j \in 1..Len(buttons) :
         (i # j) => ~Overlap(buttons[i].rect, buttons[j].rect)
    /\ \A p \in Points(buttons) : Cardinality(Colliding(buttons, p)) <= 1

\* a 3-column layout of two rows, the second partly filled, is complete
C18_Witness ==
    /\ pc = "built"
    /\ columns = BUTTON_COLUMNS
    /\ Len(buttons) = 5
    /\ Cardinality(Colliding(buttons, << buttons[5].rect.x, buttons[5].rect.y >>)) = 1

====
